---- MODULE Spec2Model ----
(***************************************************************************)
(* A model of the WordGenerator class (src/lib/WordGenerator.js) and of    *)
(* the HTTP handler that drives it (src/api/generate.js).                  *)
(*                                                                         *)
(* Text is modelled at character level: a JavaScript string is a sequence  *)
(* of one-character strings, so that charAt, slice, split and join are     *)
(* computed as the code computes them.  Names that the code only compares  *)
(* for equality (word-list names, output formats) are atomic strings.      *)
(*                                                                         *)
(* Every call of Math.random is an input of the action that makes it: a    *)
(* random function is modelled by the set of values it can return.         *)
(***************************************************************************)
EXTENDS Integers, Sequences, FiniteSets, TLC

(***************************************************************************)
(* Bounds of the model.                                                    *)
(***************************************************************************)
\* largest sentence.max a caller configures
MaxSentence == 2
\* largest paragraph.max a caller configures
MaxParagraph == 2
\* largest commaRate a caller configures
MaxCommaRate == 1
\* largest maxFormattedWords a caller configures
MaxFormatted == 2
\* largest maxWords cap a caller configures
MaxCap == 2
\* largest numeric limit passed to getOutput directly
MaxLimit == 7
\* Math.random calls explored in one run of injectFormatting's while loop
MaxDraws == 4

(***************************************************************************)
(* Small helpers.                                                          *)
(***************************************************************************)
Min(a, b) == IF a < b THEN a ELSE b

Max(a, b) == IF a > b THEN a ELSE b

Range(s) == {s[i] : i \in DOMAIN s}

(***************************************************************************)
(* JavaScript values that are not always numbers: null, NaN, a number.     *)
(***************************************************************************)
Null == [t |-> "null"]

NaN == [t |-> "nan"]

Num(n) == [t |-> "num", v |-> n]

\* ToBoolean: null, NaN and 0 are falsy
Truthy(x) == x.t = "num" /\ x.v # 0

(***************************************************************************)
(* Characters.                                                             *)
(***************************************************************************)
Lower == <<"a", "b", "c", "d", "e", "f", "g", "h", "i", "j", "k", "l", "m",
           "n", "o", "p", "q", "r", "s", "t", "u", "v", "w", "x", "y", "z">>

Upper == <<"A", "B", "C", "D", "E", "F", "G", "H", "I", "J", "K", "L", "M",
           "N", "O", "P", "Q", "R", "S", "T", "U", "V", "W", "X", "Y", "Z">>

Digits == <<"0", "1", "2", "3", "4", "5", "6", "7", "8", "9">>

\* String.prototype.toUpperCase on one character
toUpperCase(c) ==
    IF \E i \in DOMAIN Lower : Lower[i] = c
    THEN Upper[CHOOSE i \in DOMAIN Lower : Lower[i] = c]
    ELSE c

\* String.prototype.slice(1)
slice1(str) == IF Len(str) = 0 THEN <<>> ELSE SubSeq(str, 2, Len(str))

\* String.prototype.charAt(0): the empty string when there is no character
charAt0(str) == IF Len(str) = 0 THEN <<>> ELSE <<str[1]>>

\* String.prototype.split(' '): the empty string splits into one empty token
RECURSIVE splitLoop(_, _, _)
splitLoop(str, i, cur) ==
    IF i > Len(str) THEN <<cur>>
    ELSE IF str[i] = " " THEN <<cur>> \o splitLoop(str, i + 1, <<>>)
    ELSE splitLoop(str, i + 1, Append(cur, str[i]))

split(str) == splitLoop(str, 1, <<>>)

\* Array.prototype.join(' ')
RECURSIVE join(_)
join(arr) ==
    IF Len(arr) = 0 THEN <<>>
    ELSE IF Len(arr) = 1 THEN arr[1]
    ELSE arr[1] \o <<" ">> \o join(Tail(arr))

\* Array.prototype.slice(0, end) for an integer or NaN end
arraySlice(arr, end) ==
    LET len == Len(arr)
        rel == IF end.t = "num" THEN end.v ELSE 0
        fin == IF rel < 0 THEN Max(len + rel, 0) ELSE Min(rel, len)
    IN  SubSeq(arr, 1, fin)

\* Number.prototype.toString for a non-negative integer (a property key)
RECURSIVE toString(_)
toString(n) ==
    IF n < 10 THEN <<Digits[n + 1]>>
    ELSE toString(n \div 10) \o <<Digits[(n % 10) + 1]>>

\* parseInt(x, 10) of a string: optional sign, then the leading digits
digitValue(c) == (CHOOSE i \in DOMAIN Digits : Digits[i] = c) - 1

isDigit(c) == \E i \in DOMAIN Digits : Digits[i] = c

RECURSIVE parseDigits(_, _, _)
parseDigits(str, i, acc) ==
    IF i > Len(str) \/ ~isDigit(str[i]) THEN acc
    ELSE parseDigits(str, i + 1, 10 * acc + digitValue(str[i]))

RECURSIVE skipSpaces(_)
skipSpaces(str) ==
    IF Len(str) > 0 /\ str[1] = " " THEN skipSpaces(Tail(str)) ELSE str

parseInt(raw) ==
    LET str  == skipSpaces(raw)
        neg  == Len(str) > 0 /\ str[1] = "-"
        body == IF Len(str) > 0 /\ str[1] \in {"-", "+"} THEN Tail(str) ELSE str
    IN  IF Len(body) = 0 \/ ~isDigit(body[1]) THEN NaN
        ELSE Num((IF neg THEN -1 ELSE 1) * parseDigits(body, 1, 0))

(***************************************************************************)
(* Literal texts of the code.                                              *)
(***************************************************************************)
LoremIpsum == <<"L", "o", "r", "e", "m", " ", "i", "p", "s", "u", "m", " ">>

StrongOpen == <<"<", "s", "t", "r", "o", "n", "g", ">">>

StrongClose == <<"<", "/", "s", "t", "r", "o", "n", "g", ">">>

EmOpen == <<"<", "e", "m", ">">>

EmClose == <<"<", "/", "e", "m", ">">>

LinkOpen == <<"<", "a", " ", "h", "r", "e", "f", "=", "\"", "#", "\"", ">">>

LinkClose == <<"<", "/", "a", ">">>

(***************************************************************************)
(* The two imported word lists.  Their files (src/languages/latin.js and   *)
(* medieval.js) are not part of the sources at hand: the lists are         *)
(* modelled as short lists of lowercase words.                             *)
(***************************************************************************)
LatinList == << <<"a", "d">>, <<"e", "t">>, <<"i", "n">>,
                <<"u", "t">>, <<"e", "x">>, <<"a", "b">> >>

MedievalList == << <<"y", "e">>, <<"o", "f">> >>

(***************************************************************************)
(* State.                                                                  *)
(***************************************************************************)
VARIABLES
    latinWords,     \* module-level array imported from languages/latin.js
    medievalWords,  \* module-level array imported from languages/medieval.js
    settings,       \* this.settings of the generator under test
    wordList,       \* this.wordList
    wordCount,      \* this.wordCount
    op,             \* the operation that returned last
    args,           \* its arguments
    result,         \* the value it returned
    trace,          \* what it drew and computed on the way
    called,         \* whether a call has returned before the last one
    pc,             \* position inside a stepwise run of injectFormatting
    words,          \* injectFormatting: the local array words
    uniqueIndexes   \* injectFormatting: the Set, in insertion order

vars == <<latinWords, medievalWords, settings, wordList, wordCount,
          op, args, result, trace, called, pc, words, uniqueIndexes>>

generator == <<settings, wordList, wordCount>>

modules == <<latinWords, medievalWords>>

loopVars == <<pc, words, uniqueIndexes>>

(***************************************************************************)
(* constructor                                                             *)
(***************************************************************************)
\* The defaults of the constructor.  The sentence and paragraph ranges are
\* 2..15 words and 3..10 sentences in the source; the model scales them
\* to 2..2 words and 1..1 sentences so that the texts of a default generator can be
\* enumerated.  The other defaults are the source's.
ScaledSentence == [min |-> 2, max |-> 2]

ScaledParagraph == [min |-> 1, max |-> 1]

DefaultCommaRate == 10

DefaultMaxFormattedWords == 3

defaultSettings ==
    [sentence          |-> ScaledSentence,
     paragraph         |-> ScaledParagraph,
     commaRate         |-> DefaultCommaRate,
     injectStyling     |-> FALSE,
     maxFormattedWords |-> DefaultMaxFormattedWords,
     wordList          |-> "medieval",
     outputFormat      |-> "string",
     maxWords          |-> Null]

\* { ...defaultSettings, ...settings }: a shallow merge, key by key
mergeSettings(defaults, given) ==
    [k \in (DOMAIN defaults) \cup (DOMAIN given) |->
        IF k \in DOMAIN given THEN given[k] ELSE defaults[k]]

chooseWordListSwapped(type, latin, medieval) ==
    CASE type = "latin"    -> latin
      [] type = "medieval" -> medieval
      [] type = "both"     -> medieval \o latin
      [] OTHER             -> medieval

chooseWordList(type, latin, medieval) ==
    CASE type = "latin"    -> latin
      [] type = "medieval" -> medieval
      [] type = "both"     -> latin \o medieval
      [] OTHER             -> medieval

\* new WordGenerator(given): the three fields of the new object
newGenerator(given, latin, medieval) ==
    LET s  == mergeSettings(defaultSettings, given)
        wl == chooseWordList(s.wordList, latin, medieval)
    IN  [settings |-> s, wordList |-> wl, wordCount |-> Len(wl)]

(***************************************************************************)
(* Random primitives.                                                      *)
(***************************************************************************)
\* Math.floor(Math.random() * (max - min + 1) + min): every value it can
\* take for Math.random() in [0, 1).  With min <= max these are min..max.
getRandomInt(min, max) == IF max >= min THEN min..max ELSE (max + 1)..min

\* this.wordList[this.getRandomInt(0, this.wordList.length - 1)]
getWord(wl) == {wl[i + 1] : i \in getRandomInt(0, Len(wl) - 1)}

capitalizeNothing(str) == str

\* str.charAt(0).toUpperCase() + str.slice(1)
capitalizeFirstLetter(str) ==
    (IF Len(str) = 0 THEN <<>> ELSE <<toUpperCase(charAt0(str)[1])>>) \o slice1(str)

(***************************************************************************)
(* formatWord and injectFormatting                                         *)
(***************************************************************************)
Formats == <<"bold", "italic", "link">>

\* Math.floor(Math.random() * formats.length)
formatDraws == 0..(Len(Formats) - 1)

\* formatWord, for the index f drawn into formats
formatWord(word, f) ==
    LET formatType == Formats[f + 1]
    IN  CASE formatType = "bold"   -> StrongOpen \o word \o StrongClose
          [] formatType = "italic" -> EmOpen \o word \o EmClose
          [] formatType = "link"   -> LinkOpen \o word \o LinkClose
          [] OTHER                 -> word

whileCondUnbounded(uniq, ws, maxFormattedWords) ==
    Len(uniq) < maxFormattedWords

\* the condition of the while loop
whileCond(uniq, ws, maxFormattedWords) ==
    Len(uniq) < maxFormattedWords /\ Len(uniq) < Len(ws)

setAddDuplicate(uniq, x) == Append(uniq, x)

\* Set.prototype.add: the Set is kept as the sequence of its members in
\* insertion order, which is the order for...of visits them in
setAdd(uniq, x) == IF x \in Range(uniq) THEN uniq ELSE Append(uniq, x)

\* Math.floor(Math.random() * words.length)
indexDraws(ws) == 0..(Len(ws) - 1)

\* the while loop: every Set it can end with within fuel draws
RECURSIVE selectLoop(_, _, _, _)
selectLoop(uniq, ws, maxFormattedWords, fuel) ==
    IF ~whileCond(uniq, ws, maxFormattedWords) THEN {uniq}
    ELSE IF fuel = 0 THEN {}
    ELSE UNION {selectLoop(setAdd(uniq, randomIndex), ws, maxFormattedWords, fuel - 1) :
                    randomIndex \in indexDraws(ws)}

\* the for...of loop: words[index] = this.formatWord(words[index])
RECURSIVE formatLoop(_, _, _)
formatLoop(k, uniq, ws) ==
    IF k > Len(uniq) THEN {ws}
    ELSE UNION {formatLoop(k + 1, uniq,
                           [ws EXCEPT ![uniq[k] + 1] = formatWord(@, f)]) :
                    f \in formatDraws}

\* injectFormatting(sentence): every outcome, with the tokens before and
\* after and the indexes selected
injectFormatting(sentence, maxFormattedWords) ==
    LET ws == split(sentence)
    IN  UNION {{[text    |-> join(after),
                 before  |-> ws,
                 after   |-> after,
                 indexes |-> uniq] : after \in formatLoop(1, uniq, ws)} :
                  uniq \in selectLoop(<<>>, ws, maxFormattedWords, MaxDraws)}

(***************************************************************************)
(* getSentence                                                             *)
(***************************************************************************)
\* line 137: the number of words, for the random draw r
wordsCountOf(s, r) ==
    IF Truthy(s.maxWords) THEN Min(r, s.maxWords.v) ELSE r

\* line 143: what follows the last word
lastWordMark == <<".">>

\* the for loop: acc.text is sentence, acc.appended counts the getWord calls
RECURSIVE sentenceLoop(_, _, _, _, _)
sentenceLoop(i, wordsCount, acc, s, wl) ==
    IF ~(i < wordsCount) THEN {acc}
    ELSE UNION {
        LET withWord == [text     |-> acc.text \o w,
                         appended |-> acc.appended + 1]
        IN  IF i = wordsCount - 1
            THEN sentenceLoop(i + 1, wordsCount,
                              [withWord EXCEPT !.text = @ \o lastWordMark], s, wl)
            ELSE UNION {
                sentenceLoop(i + 1, wordsCount,
                             [withWord EXCEPT !.text =
                                 @ \o (IF c = 0 THEN <<",", " ">> ELSE <<" ">>)],
                             s, wl) : c \in getRandomInt(0, s.commaRate)}
        : w \in getWord(wl)}

\* lines 151-157: capitalize, then style if asked to
finishSentence(s, b, r, acc) ==
    LET plain == capitalizeFirstLetter(acc.text)
    IN  IF s.injectStyling
        THEN {[begin |-> b, draw |-> r, wordsCount |-> wordsCountOf(s, r),
               appended |-> acc.appended, plain |-> plain, styled |-> TRUE,
               text |-> o.text, before |-> o.before, after |-> o.after,
               indexes |-> o.indexes] :
                  o \in injectFormatting(plain, s.maxFormattedWords)}
        ELSE {[begin |-> b, draw |-> r, wordsCount |-> wordsCountOf(s, r),
               appended |-> acc.appended, plain |-> plain, styled |-> FALSE,
               text |-> plain, before |-> <<>>, after |-> <<>>,
               indexes |-> <<>>]}

\* getSentence(beginWithLoremIpsum): every outcome
getSentence(s, wl, beginWithLoremIpsum) ==
    UNION {UNION {finishSentence(s, beginWithLoremIpsum, r, acc) :
                     acc \in sentenceLoop(0, wordsCountOf(s, r),
                                [text     |-> IF beginWithLoremIpsum
                                              THEN LoremIpsum ELSE <<>>,
                                 appended |-> 0],
                                s, wl)} :
              r \in getRandomInt(s.sentence.min, s.sentence.max)}

(***************************************************************************)
(* getParagraph                                                            *)
(***************************************************************************)
separatorAlways(i, n) == <<" ">>

\* lines 174-176: a space after every sentence but the last
separator(i, n) == IF i < n - 1 THEN <<" ">> ELSE <<>>

\* line 173: beginWithLoremIpsum = false
nextBegin(b) == FALSE

\* the for loop: every (paragraph, calls of getSentence) it can end with
RECURSIVE paragraphLoop(_, _, _, _, _)
paragraphLoop(i, n, acc, s, wl) ==
    IF ~(i < n) THEN {acc}
    ELSE UNION {
        paragraphLoop(i + 1, n,
                      [text  |-> acc.text \o sent.text \o separator(i, n),
                       calls |-> Append(acc.calls, sent),
                       begin |-> nextBegin(acc.begin)],
                      s, wl) : sent \in getSentence(s, wl, acc.begin)}

\* line 179: wrapWith is truthy when it is not the empty string
wrap(wrapWith, paragraph) ==
    IF Len(wrapWith) > 0
    THEN <<"<">> \o wrapWith \o <<">">> \o paragraph
         \o <<"<", "/">> \o wrapWith \o <<">">>
    ELSE paragraph

\* getParagraph(beginWithLoremIpsum, wrapWith): every outcome
getParagraph(s, wl, beginWithLoremIpsum, wrapWith) ==
    UNION {{[n |-> n, calls |-> acc.calls, inner |-> acc.text,
             text |-> wrap(wrapWith, acc.text)] :
               acc \in paragraphLoop(0, n,
                          [text |-> <<>>, calls |-> <<>>,
                           begin |-> beginWithLoremIpsum], s, wl)} :
              n \in getRandomInt(s.paragraph.min, s.paragraph.max)}

(***************************************************************************)
(* getOutput                                                               *)
(***************************************************************************)
GetOutputDefaultLimit == 10

EmptyObject == [k \in {} |-> <<>>]

\* acc[index] = word
putProperty(acc, key, value) ==
    [k \in (DOMAIN acc) \cup {key} |-> IF k = key THEN value ELSE acc[k]]

hashKeyShifted(index) == toString(index + 1)

\* the property key that acc[index] writes
hashKey(index) == toString(index)

\* arr.reduce((acc, word, index) => { acc[index] = word; return acc; }, {})
RECURSIVE reduceToHash(_, _, _)
reduceToHash(arr, index, acc) ==
    IF index >= Len(arr) THEN acc
    ELSE reduceToHash(arr, index + 1, putProperty(acc, hashKey(index), arr[index + 1]))

arraySliceFromOne(arr, end) == SubSeq(arraySlice(arr, end), 2, Len(arraySlice(arr, end)))

\* this.wordList.slice(0, limit): the array returned
sliceOutput(arr, end) == arraySlice(arr, end)

receiverAfterSplice(arr, end) ==
    SubSeq(arr, Len(arraySlice(arr, end)) + 1, Len(arr))

\* this.wordList.slice(0, limit): the receiver afterwards (slice copies)
receiverAfterSlice(arr, end) == arr

\* limit === 0
isZero(limit) == limit.t = "num" /\ limit.v = 0

defaultBranchWrapped(s, wl) == getParagraph(s, wl, FALSE, <<"p">>)

\* the default branch: this.getParagraph(), that is getParagraph(false, "")
defaultBranch(s, wl) == getParagraph(s, wl, FALSE, <<>>)

\* getOutput(format, limit): every outcome, with the receiver array afterwards
getOutput(s, wl, format, limit) ==
    CASE format = "array" ->
            {[output    |-> IF isZero(limit) THEN wl ELSE sliceOutput(wl, limit),
              receiver  |-> IF isZero(limit) THEN wl ELSE receiverAfterSlice(wl, limit),
              paragraph |-> Null]}
      [] format = "hash" ->
            {[output    |-> IF isZero(limit)
                            THEN reduceToHash(wl, 0, EmptyObject)
                            ELSE reduceToHash(sliceOutput(wl, limit), 0, EmptyObject),
              receiver  |-> IF isZero(limit) THEN wl ELSE receiverAfterSlice(wl, limit),
              paragraph |-> Null]}
      [] OTHER ->
            {[output |-> par.text, receiver |-> wl, paragraph |-> par] :
                par \in defaultBranch(s, wl)}

\* the arguments of getOutput after their defaults (format = 'string', limit = 10)
getOutputArgs(a) ==
    [format |-> IF "format" \in DOMAIN a THEN a.format ELSE "string",
     limit  |-> IF "limit" \in DOMAIN a THEN a.limit ELSE Num(GetOutputDefaultLimit)]

(***************************************************************************)
(* handler (src/api/generate.js)                                           *)
(***************************************************************************)
HandlerDefaultLimit == 10

StatusOk == 200

\* the default of wordList in the destructuring of req.query
handlerDefaultWordList == "latin"

\* const { wordList = 'latin', format = 'string', limit = 10 } = req.query
handlerArgs(query) ==
    [wordList |-> IF "wordList" \in DOMAIN query THEN query.wordList
                  ELSE handlerDefaultWordList,
     format   |-> IF "format" \in DOMAIN query THEN query.format ELSE "string",
     limit    |-> IF "limit" \in DOMAIN query THEN parseInt(query.limit)
                  ELSE parseInt(toString(HandlerDefaultLimit))]

\* which array this.wordList is: a module-level array, or the generator's own
wordListRef(type) ==
    CASE type = "latin" -> "latin"
      [] type = "both"  -> "own"
      [] OTHER          -> "medieval"

\* handler(req, res): every response, with the generator it built
handler(query, latin, medieval) ==
    LET a   == handlerArgs(query)
        gen == newGenerator([wordList |-> a.wordList], latin, medieval)
    IN  {[status   |-> StatusOk,
          headers  |-> [origin |-> "*", methods |-> "GET", allow |-> "Content-Type"],
          json     |-> [output |-> o.output],
          ref      |-> wordListRef(gen.settings.wordList),
          receiver |-> o.receiver,
          paragraph |-> o.paragraph] :
             o \in getOutput(gen.settings, gen.wordList, a.format, a.limit)}

(***************************************************************************)
(* Inputs.                                                                 *)
(***************************************************************************)
\* a record with the optional keys whose value sets are not empty
optional(keys, values) ==
    [k \in {x \in DOMAIN values : values[x] # {}} |-> CHOOSE v \in values[k] : TRUE]

options(S) == {{}} \cup {{x} : x \in S}

\* the ranges min..max within 0..m that satisfy min <= max
Ranges(m) == {r \in [min : 0..m, max : 0..m] : r.min <= r.max}

WordListNames == {"latin", "medieval", "both", "klingon"}

Caps == {Null} \cup {Num(n) : n \in (-1)..MaxCap}

\* settings that choose the vocabulary
VocabularyFamily ==
    {optional({"wordList"}, [wordList |-> w]) : w \in options(WordListNames)}

\* settings that shape the word count of a sentence
CountFamily ==
    {[sentence |-> r, maxWords |-> c, commaRate |-> k] :
        r \in Ranges(MaxSentence),
        c \in Caps, k \in {0, MaxCommaRate}}

\* settings that switch styling on
StylingFamily ==
    {[sentence |-> r, injectStyling |-> TRUE, maxFormattedWords |-> m,
      commaRate |-> 1] :
        r \in {[min |-> 0, max |-> 1], [min |-> 2, max |-> 2]},
        m \in 0..MaxFormatted}

\* settings that shape the sentence count of a paragraph
ParagraphFamily ==
    {[paragraph |-> q, sentence |-> r] :
        q \in Ranges(MaxParagraph),
        r \in {[min |-> 0, max |-> 1], [min |-> 1, max |-> 1]}}

SettingsInputs ==
    VocabularyFamily \cup CountFamily \cup StylingFamily \cup ParagraphFamily

WrapTags == {<<>>, <<"p">>}

\* sentences handed to injectFormatting directly
SampleSentences ==
    {<<>>,
     <<"Y", "e", ".">>,
     <<"Y", "e", ",", " ", "o", "f", ".">>,
     <<"O", "f", " ", "y", "e", " ", "o", "f", ".">>,
     <<"Y", "e", " ", " ", "o", "f">>,
     LoremIpsum}

Limits == {NaN} \cup {Num(n) : n \in (-1)..MaxLimit}

\* arguments of getOutput: the list formats with every limit, the text
\* formats with a few
GetOutputInputs ==
    {optional({"format", "limit"}, [format |-> f, limit |-> l]) :
        f \in {{"array"}, {"hash"}}, l \in options(Limits)}
    \cup
    {optional({"format", "limit"}, [format |-> f, limit |-> l]) :
        f \in options({"string", "xml"}),
        l \in {{}, {Num(0)}, {Num(MaxLimit)}}}

LimitTexts == {<<"0">>, <<"5">>, <<"3">>, <<"-", "1">>, <<"x">>, <<"2", "x">>}

\* query strings of a request
QueryInputs ==
    {optional({"wordList", "format", "limit"},
              [wordList |-> w, format |-> f, limit |-> l]) :
        w \in options(WordListNames), f \in {{"array"}, {"hash"}},
        l \in options(LimitTexts)}
    \cup
    {optional({"wordList", "format", "limit"},
              [wordList |-> w, format |-> f, limit |-> l]) :
        w \in options(WordListNames), f \in options({"xml"}),
        l \in {{}, {<<"5">>}}}

(***************************************************************************)
(* Initial state: a generator just constructed.                            *)
(***************************************************************************)
InitWith(inputs) ==
    /\ latinWords = LatinList
    /\ medievalWords = MedievalList
    /\ \E given \in inputs :
          LET gen == newGenerator(given, LatinList, MedievalList)
          IN  /\ settings = gen.settings
              /\ wordList = gen.wordList
              /\ wordCount = gen.wordCount
              /\ args = [settings |-> given]
    /\ op = "new"
    /\ called = FALSE
    /\ result = <<>>
    /\ trace = <<>>
    /\ pc = "idle"
    /\ words = <<>>
    /\ uniqueIndexes = <<>>

Init == InitWith(SettingsInputs)

\* generators configured with maxWords: 0
ZeroCapFamily == {given \in CountFamily : given.maxWords = Num(0)}

InitZeroCap == InitWith(ZeroCapFamily)

(***************************************************************************)
(* Operations, each a whole call.                                          *)
(***************************************************************************)
\* the arrays after a call left the array named ref as arr
StoreArrays(ref, arr) ==
    /\ latinWords' = IF ref = "latin" THEN arr ELSE latinWords
    /\ medievalWords' = IF ref = "medieval" THEN arr ELSE medievalWords
    /\ wordList' = IF ref = wordListRef(settings.wordList) /\ ref # "own"
                   THEN arr ELSE wordList

ChooseWordListCall ==
    /\ pc = "idle"
    /\ op \in {"new", "idle"}
    /\ \E type \in WordListNames \cup {"string"} :
          /\ op' = "chooseWordList"
          /\ args' = [type |-> type]
          /\ result' = chooseWordList(type, latinWords, medievalWords)
          /\ trace' = <<>>
    /\ UNCHANGED <<generator, modules, loopVars, called>>

InjectFormattingCall ==
    /\ pc = "idle"
    /\ op \in {"new", "idle"}
    /\ \E sentence \in SampleSentences :
          \E o \in injectFormatting(sentence, settings.maxFormattedWords) :
              /\ op' = "injectFormatting"
              /\ args' = [sentence |-> sentence]
              /\ result' = o.text
              /\ trace' = o
    /\ UNCHANGED <<generator, modules, loopVars, called>>

GetSentenceCall ==
    /\ pc = "idle"
    /\ op \in {"new", "idle"}
    /\ \E b \in BOOLEAN :
          \E o \in getSentence(settings, wordList, b) :
              /\ op' = "getSentence"
              /\ args' = [beginWithLoremIpsum |-> b]
              /\ result' = o.text
              /\ trace' = o
    /\ UNCHANGED <<generator, modules, loopVars, called>>

GetParagraphCall ==
    /\ pc = "idle"
    /\ op \in {"new", "idle"}
    /\ \E b \in BOOLEAN, w \in WrapTags :
          \E o \in getParagraph(settings, wordList, b, w) :
              /\ op' = "getParagraph"
              /\ args' = [beginWithLoremIpsum |-> b, wrapWith |-> w]
              /\ result' = o.text
              /\ trace' = o
    /\ UNCHANGED <<generator, modules, loopVars, called>>

GetOutputCall ==
    /\ pc = "idle"
    /\ op \in {"new", "idle"}
    /\ \E given \in GetOutputInputs :
          LET a == getOutputArgs(given)
          IN  \E o \in getOutput(settings, wordList, a.format, a.limit) :
                  /\ op' = "getOutput"
                  /\ args' = [given |-> given, format |-> a.format, limit |-> a.limit]
                  /\ result' = o.output
                  /\ trace' = o
                  /\ IF wordListRef(settings.wordList) = "own"
                     THEN wordList' = o.receiver /\ UNCHANGED modules
                     ELSE StoreArrays(wordListRef(settings.wordList), o.receiver)
    /\ UNCHANGED <<settings, wordCount, loopVars, called>>

Handler ==
    /\ pc = "idle"
    /\ op \in {"new", "idle"}
    /\ \E query \in QueryInputs :
          \E o \in handler(query, latinWords, medievalWords) :
              /\ op' = "handler"
              /\ args' = [query |-> query, parsed |-> handlerArgs(query)]
              /\ result' = [status |-> o.status, headers |-> o.headers,
                            json |-> o.json]
              /\ trace' = o
              /\ StoreArrays(o.ref, o.receiver)
    /\ UNCHANGED <<settings, wordCount, loopVars, called>>

\* the caller has taken the returned value: the next call starts afresh
Discard ==
    /\ pc = "idle"
    /\ op \notin {"new", "idle"}
    /\ op' = "idle"
    /\ called' = TRUE
    /\ args' = <<>>
    /\ result' = <<>>
    /\ trace' = <<>>
    /\ UNCHANGED <<generator, modules, loopVars>>

Next ==
    \/ ChooseWordListCall
    \/ InjectFormattingCall
    \/ GetSentenceCall
    \/ GetParagraphCall
    \/ GetOutputCall
    \/ Handler
    \/ Discard

Spec == Init /\ [][Next]_vars

SpecZeroCap == InitZeroCap /\ [][Next]_vars

(***************************************************************************)
(* injectFormatting, one loop iteration at a time.                         *)
(***************************************************************************)
InitLoop == InitWith(StylingFamily \cup VocabularyFamily)

\* lines 114-116
Enter ==
    /\ pc = "idle"
    /\ op \in {"new", "idle"}
    /\ \E sentence \in SampleSentences :
          /\ args' = [sentence |-> sentence]
          /\ words' = split(sentence)
          /\ trace' = [before |-> split(sentence), k |-> 1]
    /\ uniqueIndexes' = <<>>
    /\ pc' = "while"
    /\ op' = "running"
    /\ UNCHANGED <<generator, modules, called, result>>

\* lines 118-121: one iteration of the while loop
WhileStep ==
    /\ pc = "while"
    /\ whileCond(uniqueIndexes, words, settings.maxFormattedWords)
    /\ \E randomIndex \in indexDraws(words) :
          uniqueIndexes' = setAdd(uniqueIndexes, randomIndex)
    /\ UNCHANGED <<generator, modules, called, op, args, result, trace, pc, words>>

\* line 118: the condition fails
WhileExit ==
    /\ pc = "while"
    /\ ~whileCond(uniqueIndexes, words, settings.maxFormattedWords)
    /\ pc' = "for"
    /\ UNCHANGED <<generator, modules, called, op, args, result, trace, words,
                   uniqueIndexes>>

\* lines 123-125: one iteration of the for...of loop
ForStep ==
    /\ pc = "for"
    /\ trace.k <= Len(uniqueIndexes)
    /\ \E f \in formatDraws :
          words' = [words EXCEPT ![uniqueIndexes[trace.k] + 1] = formatWord(@, f)]
    /\ trace' = [trace EXCEPT !.k = @ + 1]
    /\ UNCHANGED <<generator, modules, called, op, args, result, pc, uniqueIndexes>>

\* line 127
Return ==
    /\ pc = "for"
    /\ trace.k > Len(uniqueIndexes)
    /\ result' = join(words)
    /\ trace' = [text |-> join(words), before |-> trace.before, after |-> words,
                 indexes |-> uniqueIndexes]
    /\ op' = "injectFormatting"
    /\ pc' = "idle"
    /\ UNCHANGED <<generator, modules, called, args, words, uniqueIndexes>>

NextLoop ==
    \/ Enter
    \/ WhileStep
    \/ WhileExit
    \/ ForStep
    \/ Return
    \/ Discard

\* A draw of Math.random that is repeated for ever has probability 0: an
\* iteration that adds a new index is taken if it stays possible.
SpecLoop ==
    /\ InitLoop
    /\ [][NextLoop]_vars
    /\ WF_vars(WhileStep)
    /\ WF_vars(WhileExit)
    /\ WF_vars(ForStep)
    /\ WF_vars(Return)

(***************************************************************************)
(* Properties.                                                             *)
(***************************************************************************)
IsUpperLetter(c) == c \in Range(Upper)

StartsWith(str, prefix) ==
    Len(str) >= Len(prefix) /\ SubSeq(str, 1, Len(prefix)) = prefix

EndsWithPeriod(str) == Len(str) > 0 /\ str[Len(str)] = "."

SentenceShape(str, begin) ==
    /\ EndsWithPeriod(str)
    /\ IsUpperLetter(str[1])
    /\ begin => StartsWith(str, LoremIpsum)

\* C1, as first stated: getSentence always returns a string that ends with
\* "." and starts with an uppercase letter (with "Lorem ipsum " in front
\* when asked for), whatever the configuration and the draws.
C1_SentenceShapeAlways ==
    op = "getSentence" => SentenceShape(result, args.beginWithLoremIpsum)

\* C1, amended: when getSentence appends at least one word, the sentence it
\* composed before styling ends with "." and starts with an uppercase
\* letter (with "Lorem ipsum " in front when asked for), and that sentence
\* is what it returns when styling is off.
C1_SentenceShape ==
    (op = "getSentence" /\ trace.appended >= 1) =>
        /\ SentenceShape(trace.plain, args.beginWithLoremIpsum)
        /\ ~settings.injectStyling => result = trace.plain

C1_Witness ==
    /\ op = "getSentence"
    /\ trace.appended = 2
    /\ ~settings.injectStyling
    /\ ~args.beginWithLoremIpsum
    /\ result = <<"Y", "e", ",", " ", "o", "f", ".">>

\* C2: the number of words getSentence appends lies in
\* [sentence.min, sentence.max], and whenever maxWords is configured (any
\* integer, 0 included) it equals min(random draw, maxWords) and so never
\* exceeds maxWords.
C2_WordCount ==
    op = "getSentence" =>
        /\ trace.appended \in settings.sentence.min..settings.sentence.max
        /\ settings.maxWords.t = "num" =>
              /\ trace.appended = Min(trace.draw, settings.maxWords.v)
              /\ trace.appended <= settings.maxWords.v

\* the first k entries of a list, in order
FirstEntries(list, k) == [i \in 1..k |-> list[i]]

\* C3: getOutput('array', limit), for a non-negative integer limit, is the
\* whole vocabulary when limit = 0 and else its first min(limit, |V|)
\* entries in stored order.
C3_ArrayOutput ==
    (op = "getOutput" /\ args.format = "array"
        /\ args.limit.t = "num" /\ args.limit.v >= 0) =>
        result = IF args.limit.v = 0 THEN wordList
                 ELSE FirstEntries(wordList, Min(args.limit.v, Len(wordList)))

C3_Witness ==
    /\ op = "getOutput"
    /\ args.format = "array"
    /\ args.limit = Num(5)
    /\ wordList = LatinList
    /\ result = <<LatinList[1], LatinList[2], LatinList[3], LatinList[4],
                  LatinList[5]>>

\* the decimal key of an index below ten
DecimalKey(i) == <<Digits[i + 1]>>

\* C4: getOutput('hash', limit) has exactly the keys 0..k-1, k the length
\* of the array result for the same limit, and key i holds the i-th entry
\* of that array result.
C4_HashOutput ==
    (op = "getOutput" /\ args.format = "hash") =>
        \A o \in getOutput(settings, wordList, "array", args.limit) :
            /\ DOMAIN result = {DecimalKey(i) : i \in 0..(Len(o.output) - 1)}
            /\ \A i \in 0..(Len(o.output) - 1) :
                  result[DecimalKey(i)] = o.output[i + 1]

C4_Witness ==
    /\ op = "getOutput"
    /\ args.format = "hash"
    /\ args.limit = Num(3)
    /\ DOMAIN result = {<<"0">>, <<"1">>, <<"2">>}
    /\ result[<<"2">>] = wordList[3]

\* the result of a text-format getOutput is one paragraph of getParagraph
\* with no prefix and no wrap tag
PlainParagraph ==
    /\ trace.paragraph.n \in settings.paragraph.min..settings.paragraph.max
    /\ Len(trace.paragraph.calls) = trace.paragraph.n
    /\ \A i \in DOMAIN trace.paragraph.calls : ~trace.paragraph.calls[i].begin
    /\ result = join([i \in DOMAIN trace.paragraph.calls |->
                         trace.paragraph.calls[i].text])

TextFormat == op = "getOutput" /\ args.format \notin {"array", "hash"}

AtLeastOneWord ==
    /\ settings.sentence.min >= 1
    /\ settings.maxWords.t = "num" => settings.maxWords.v >= 1

MarkupForms(t) ==
    {StrongOpen \o t \o StrongClose, EmOpen \o t \o EmClose,
     LinkOpen \o t \o LinkClose}

Injected == op = "injectFormatting" \/ (op = "getSentence" /\ trace.styled)

InjectedInput == IF op = "getSentence" THEN trace.plain ELSE args.sentence

WrappedTokens == {i \in DOMAIN trace.after : trace.after[i] # trace.before[i]}

\* C6: injectFormatting wraps at most min(maxFormattedWords, token count)
\* tokens, wraps no token twice (the selected indices are distinct), gives
\* every wrapped token one of the three markup forms, and leaves the other
\* tokens and the order of the tokens as they were.
C6_Injection ==
    Injected =>
        /\ trace.before = split(InjectedInput)
        /\ Len(trace.after) = Len(trace.before)
        /\ Cardinality(WrappedTokens)
              <= Min(settings.maxFormattedWords, Len(trace.before))
        /\ Cardinality(Range(trace.indexes)) = Len(trace.indexes)
        /\ WrappedTokens = {i + 1 : i \in Range(trace.indexes)}
        /\ \A i \in WrappedTokens : trace.after[i] \in MarkupForms(trace.before[i])
        /\ result = join(trace.after)

C6_Witness ==
    /\ op = "injectFormatting"
    /\ args.sentence = <<"O", "f", " ", "y", "e", " ", "o", "f", ".">>
    /\ settings.maxFormattedWords = 2
    /\ WrappedTokens = {1, 3}
    /\ trace.after[2] = <<"y", "e">>

\* what the resolver is to return for a name
Resolved(name) ==
    CASE name = "latin"    -> LatinList
      [] name = "medieval" -> MedievalList
      [] name = "both"     -> [i \in 1..(Len(LatinList) + Len(MedievalList)) |->
                                  IF i <= Len(LatinList) THEN LatinList[i]
                                  ELSE MedievalList[i - Len(LatinList)]]
      [] OTHER             -> MedievalList

\* C7: 'latin' resolves to the latin list, 'medieval' to the medieval list,
\* 'both' to the latin list followed by the medieval list, and any other
\* name, an absent one included, to the medieval list, on every call.
C7_Resolver ==
    /\ op = "chooseWordList" => result = Resolved(args.type)
    /\ wordList = Resolved(settings.wordList)
    /\ (op = "new" /\ "wordList" \notin DOMAIN args.settings) =>
          wordList = MedievalList
    /\ wordCount = Len(wordList)

C7_Witness ==
    /\ op = "chooseWordList"
    /\ args.type = "both"
    /\ called
    /\ Len(result) = Len(LatinList) + Len(MedievalList)
    /\ result[1] = LatinList[1]
    /\ result[Len(LatinList) + 1] = MedievalList[1]

LatinArrayFive ==
    /\ op = "handler"
    /\ "wordList" \in DOMAIN args.query /\ args.query.wordList = "latin"
    /\ "format" \in DOMAIN args.query /\ args.query.format = "array"
    /\ "limit" \in DOMAIN args.query /\ args.query.limit = <<"5">>

\* C8: no call changes the generator's configuration or its vocabulary or
\* the word lists, whatever was called before, so that a request with
\* wordList=latin, format=array, limit=5 is answered with the first five
\* latin words, in order, every time.
C8_HistoryIndependent ==
    /\ [][generator' = generator /\ modules' = modules]_vars
    /\ [](LatinArrayFive =>
             /\ result.status = 200
             /\ result.json.output = FirstEntries(LatinList, 5))

C8_Witness ==
    /\ LatinArrayFive
    /\ called
    /\ result.json.output = FirstEntries(LatinList, 5)
    /\ settings.injectStyling

\* C9: getParagraph composes n sentences, n in [paragraph.min,
\* paragraph.max], hands beginWithLoremIpsum to the first only, joins them
\* with one space each and none at the end, and wraps the whole in
\* <wrapWith>...</wrapWith> exactly when wrapWith is not empty.
C9_Paragraph ==
    op = "getParagraph" =>
        LET sents  == trace.calls
            joined == join([i \in DOMAIN sents |-> sents[i].text])
        IN  /\ Len(sents) \in settings.paragraph.min..settings.paragraph.max
            /\ \A i \in DOMAIN sents :
                  sents[i].begin = (i = 1 /\ args.beginWithLoremIpsum)
            /\ result = IF args.wrapWith # <<>>
                        THEN <<"<">> \o args.wrapWith \o <<">">> \o joined
                             \o <<"<", "/">> \o args.wrapWith \o <<">">>
                        ELSE joined

C9_Witness ==
    /\ op = "getParagraph"
    /\ args.beginWithLoremIpsum
    /\ args.wrapWith = <<"p">>
    /\ Len(trace.calls) = 2
    /\ trace.calls[2].appended = 1
    /\ result = <<"<", "p", ">">> \o LoremIpsum \o <<"y", "e", ".", " ", "O", "f", ".">>
                \o <<"<", "/", "p", ">">>

Selected ==
    /\ Len(uniqueIndexes) = Min(settings.maxFormattedWords, Len(words))
    /\ Cardinality(Range(uniqueIndexes)) = Len(uniqueIndexes)

\* C10: the while loop of injectFormatting ends, whatever the sentence (the
\* empty one, and one with fewer tokens than maxFormattedWords included):
\* it stops with min(maxFormattedWords, token count) distinct indices, and
\* it draws no more once every token is selected.
C10_LoopTerminates ==
    /\ [](pc = "for" => Selected)
    /\ []((pc = "while" /\ Len(uniqueIndexes) >= Len(words)) => ~ENABLED WhileStep)
    /\ (pc = "while") ~> (pc = "for" /\ Selected)

C10_Witness ==
    /\ pc = "for"
    /\ args.sentence = <<>>
    /\ settings.maxFormattedWords = 2
    /\ uniqueIndexes = <<0>>

====
